---- MODULE Spec2Model ----
(***************************************************************************)
(* A model of research_paper_analyzer.py: HealthcareAIPaperAnalyzer and    *)
(* main().  The file system under the papers directory, the PDF documents  *)
(* and the Judge (the chat-completion service) are the environment.        *)
(***************************************************************************)
EXTENDS Integers, Sequences, FiniteSets, TLC

VARIABLES
    fs,       \* the directory tree rooted at the papers directory (input)
    driver,   \* who calls the analyzer: "main", or a direct method call
    pc,       \* position of the caller
    papers,   \* self.papers
    i,        \* index of the paper analyze_papers handles next (1-based)
    events,   \* log of Judge calls, judgment stores and pacing delays
    ret,      \* return value of the last load_papers / analyze_papers call
    ranked,   \* return value of the last rank_papers call
    files,    \* report artifacts written so far
    ex,       \* argument and result of a direct extract_text_from_pdf call
    review    \* the domain counts the last detailed review listed

vars == <<fs, driver, pc, papers, i, events, ret, ranked, files, ex, review>>

\* ------------------------------------------------------------- bounds

\* Most entries a listing of the papers directory holds.
MaxEntries == 3
\* Most pages of a document handed to extract_text_from_pdf directly.
MaxPages == 3

\* ---------------------------------------------------- names and paths

\* A name is a tuple of characters; a path is a tuple of names.
Str_a_pdf == <<"a", ".", "p", "d", "f">>
Str_B_PDF == <<"B", ".", "P", "D", "F">>
Str_c_Pdf == <<"c", ".", "P", "d", "f">>
Str_e_pdf == <<"e", ".", "p", "d", "f">>
Str_n_txt == <<"n", ".", "t", "x", "t">>
Str_s     == <<"s">>
Str_t_pdf == <<"t", ".", "p", "d", "f">>
Str_u     == <<"u">>

\* papers_dir = "papers"
papers_dir == <<"p", "a", "p", "e", "r", "s">>

\* str.lower() on one character.
LowerChar(c) ==
    CASE c = "P" -> "p"
      [] c = "D" -> "d"
      [] c = "F" -> "f"
      [] c = "B" -> "b"
      [] OTHER   -> c

\* str.lower()
Lower(s) == [k \in 1..Len(s) |-> LowerChar(s[k])]

\* str.endswith(suffix)
EndsWith(s, suffix) ==
    /\ Len(s) >= Len(suffix)
    /\ SubSeq(s, Len(s) - Len(suffix) + 1, Len(s)) = suffix

\* Faulty variant: the extension test without lower().
IsPdfName_CaseSensitive(name) == EndsWith(name, <<".", "p", "d", "f">>)

\* item.lower().endswith('.pdf')
IsPdfName(name) == EndsWith(Lower(name), <<".", "p", "d", "f">>)

\* os.path.join(directory, item)
PathJoin(directory, item) == Append(directory, item)

\* ------------------------------------------------------------ documents

\* A document: whether PdfReader can open it, and the text of each page.
Doc(ok, pages) == [ok |-> ok, pages |-> pages]

\* The max_pages argument: None, or an integer.
None == [given |-> FALSE, val |-> 0]
IntArg(n) == [given |-> TRUE, val |-> n]

\* Python truthiness of max_pages: None and 0 are falsy.
Truthy(mp) == mp.given /\ mp.val # 0

Min(a, b) == IF a <= b THEN a ELSE b

\* pages_to_read = min(len(reader.pages), max_pages) if max_pages else len(reader.pages)
PagesToRead(doc, mp) ==
    IF Truthy(mp) THEN Min(Len(doc.pages), mp.val) ELSE Len(doc.pages)

\* range(pages_to_read): the page indexes read, in order (empty for n <= 0).
Range(n) == [k \in 1..n |-> k]

\* text += reader.pages[i].extract_text() + "\n", over the pages read.
RECURSIVE TextOf(_, _)
TextOf(doc, read) ==
    IF read = <<>> THEN <<>>
    ELSE doc.pages[Head(read)] \o <<"\n">> \o TextOf(doc, Tail(read))

\* extract_text_from_pdf: the pages read and the text returned; any failure
\* gives the empty string.
extract_text_from_pdf(doc, mp) ==
    IF ~doc.ok
    THEN [read |-> <<>>, text |-> <<>>]
    ELSE LET read == Range(PagesToRead(doc, mp))
         IN  [read |-> read, text |-> TextOf(doc, read)]

\* max_pages=10 in load_papers
LoadMaxPages == 10

\* --------------------------------------------------------- directory tree

FileNode(name, doc) ==
    [kind |-> "file", name |-> name, doc |-> doc, listable |-> TRUE, entries |-> <<>>]

\* A directory: whether os.listdir succeeds on it, and its listing in the
\* order os.listdir returns it.
DirNode(name, listable, entries) ==
    [kind |-> "dir", name |-> name, doc |-> Doc(FALSE, <<>>),
     listable |-> listable, entries |-> entries]

\* The record load_papers appends.
Paper(item, item_path, paper_text) ==
    [filename |-> item, filepath |-> item_path, content |-> paper_text,
     scores |-> [k \in {} |-> 0]]

\* Faulty variant: process_directory has no try/except, so the failure
\* leaves the call.
DirectoryError_Propagates(acc) == [papers |-> acc, raised |-> TRUE]

\* except Exception in process_directory: the failure is reported and the
\* call returns normally, self.papers as it was.
DirectoryError(acc) == [papers |-> acc, raised |-> FALSE]

\* if paper_text:
KeepText(paper_text) == paper_text # <<>>

\* process_directory.  acc is self.papers so far; the result holds self.papers
\* and whether an exception left the call.  ProcessEntries is the for loop: an
\* exception leaving a nested call ends the loop in the enclosing except.
RECURSIVE process_directory(_, _, _)
RECURSIVE ProcessEntries(_, _, _)
process_directory(dir, directory, acc) ==
    IF ~dir.listable
    THEN DirectoryError(acc)
    ELSE ProcessEntries(dir.entries, directory, acc)

ProcessEntries(entries, directory, acc) ==
    IF entries = <<>>
    THEN [papers |-> acc, raised |-> FALSE]
    ELSE LET item == Head(entries)
             item_path == PathJoin(directory, item.name)
         IN  IF item.kind = "dir"
             THEN LET r == process_directory(item, item_path, acc)
                  IN  IF r.raised
                      THEN DirectoryError(r.papers)
                      ELSE ProcessEntries(Tail(entries), directory, r.papers)
             ELSE IF IsPdfName(item.name)
             THEN LET paper_text == extract_text_from_pdf(item.doc, IntArg(LoadMaxPages)).text
                  IN  ProcessEntries(Tail(entries), directory,
                          IF KeepText(paper_text)
                          THEN Append(acc, Paper(item.name, item_path, paper_text))
                          ELSE acc)
             ELSE ProcessEntries(Tail(entries), directory, acc)

\* load_papers: self.papers = [], then process_directory(paper_dir); the
\* result holds self.papers, the value returned and whether an exception
\* left the call.
load_papers(tree) ==
    LET r == process_directory(tree, <<papers_dir>>, <<>>)
    IN  [papers |-> r.papers, result |-> Len(r.papers) > 0, raised |-> r.raised]

\* ------------------------------------------------------ directory inputs

Corrupt   == Doc(FALSE, << <<"x">> >>)
ZeroPages == Doc(TRUE, <<>>)
Blank1    == Doc(TRUE, << <<>> >>)
\* One page more than load_papers reads.
Long      == Doc(TRUE, [k \in 1..(LoadMaxPages + 1) |-> <<"x">>])

LoadDocs == {Corrupt, ZeroPages, Blank1, Long}

\* A directory that cannot be listed, holding a readable PDF.
Unlistable(name) == DirNode(name, FALSE, << FileNode(Str_e_pdf, Blank1) >>)

SubDirs(name) ==
    { Unlistable(name),
      DirNode(name, TRUE, <<>>),
      DirNode(name, TRUE, << FileNode(Str_e_pdf, Blank1) >>),
      DirNode(name, TRUE, << Unlistable(Str_u), FileNode(Str_e_pdf, Long) >>) }

EntryPool ==
    { FileNode(n, d) : n \in {Str_a_pdf, Str_B_PDF, Str_n_txt}, d \in LoadDocs }
    \cup SubDirs(Str_s) \cup SubDirs(Str_t_pdf)

\* Listings of at most n entries with distinct names.
Listings(pool, n) ==
    { s \in UNION { [1..m -> pool] : m \in 0..n } :
        \A j, k \in 1..Len(s) : j # k => s[j].name # s[k].name }

\* The trees load_papers is called on directly.
Trees ==
    { DirNode(papers_dir, TRUE, es) : es \in Listings(EntryPool, MaxEntries) }
    \cup { Unlistable(papers_dir) }

MainNames == <<Str_a_pdf, Str_B_PDF, Str_c_Pdf, Str_e_pdf, Str_t_pdf>>

\* The trees main() runs on: k readable PDFs side by side; a corrupt PDF
\* beside a readable one; trees that yield no record.
MainTrees ==
    { DirNode(papers_dir, TRUE,
              [k \in 1..n |-> FileNode(MainNames[k], IF k = 2 THEN Long ELSE Blank1)]) :
        n \in 0..MaxEntries }
    \cup { DirNode(papers_dir, TRUE,
                   << FileNode(Str_a_pdf, Corrupt), FileNode(Str_B_PDF, Blank1) >>),
           DirNode(papers_dir, TRUE, << FileNode(Str_a_pdf, Corrupt) >>),
           DirNode(papers_dir, TRUE,
                   << FileNode(Str_n_txt, Blank1), Unlistable(Str_s) >>) }

\* ------------------------------------------------------------ the Judge

\* dict.get(key, default)
Get(d, key, default) == IF key \in DOMAIN d THEN d[key] ELSE default

\* 'scores': {} in load_papers: no judgment yet.
EmptyDict == [k \in {} |-> 0]

\* The JSON objects the Judge answers with: any key may be missing (the
\* program reads every key with a default).
JudgeObjects ==
    { EmptyDict,
      [meets_inclusion_criteria |-> TRUE,  overall_score |-> 90, recommendation |-> "Include"],
      [meets_inclusion_criteria |-> TRUE,  overall_score |-> 40, recommendation |-> "Include"],
      [meets_inclusion_criteria |-> TRUE,  overall_score |-> 90, recommendation |-> "Exclude"],
      [meets_inclusion_criteria |-> FALSE, overall_score |-> 90, recommendation |-> "Exclude"],
      [meets_inclusion_criteria |-> TRUE,  recommendation |-> "Include"],
      [overall_score |-> 90, recommendation |-> "Include"] }

\* What one call of client.chat.completions.create does: it raises, or it
\* returns a message whose content json.loads rejects, or one it parses.
JudgeResponses ==
    { [raises |-> TRUE,  wellformed |-> FALSE, object |-> EmptyDict],
      [raises |-> FALSE, wellformed |-> FALSE, object |-> EmptyDict] }
    \cup { [raises |-> FALSE, wellformed |-> TRUE, object |-> o] : o \in JudgeObjects }

\* str(e) of the exception the try block raised.
ErrorText(resp) == IF resp.raises THEN "APIError" ELSE "JSONDecodeError"

\* Whether the try block of one iteration raises.
Fails(resp) == resp.raises \/ ~resp.wellformed

\* paper['content'][:7000]
ExcerptChars == 7000
Excerpt(content) == SubSeq(content, 1, Min(Len(content), ExcerptChars))

\* Faulty variant: the error judgment keeps the paper eligible.
ErrorJudgment_Included(e) ==
    [error |-> e, meets_inclusion_criteria |-> TRUE, overall_score |-> 0,
     recommendation |-> "Error"]

\* The judgment stored in the except branch.
ErrorJudgment(e) ==
    [error |-> e, meets_inclusion_criteria |-> FALSE, overall_score |-> 0,
     recommendation |-> "Error"]

JudgeEvent(k, excerpt, resp) ==
    [op |-> "judge", idx |-> k, excerpt |-> excerpt, resp |-> resp]
StoreEvent(k) == [op |-> "store", idx |-> k, excerpt |-> <<>>, resp |-> EmptyDict]
SleepEvent(k) == [op |-> "sleep", idx |-> k, excerpt |-> <<>>, resp |-> EmptyDict]

\* Faulty variant: no try/except around the Judge call, so a failure leaves
\* analyze_papers.
Iteration_NoExcept(ps, k, resp) ==
    IF Fails(resp)
    THEN [papers |-> ps, raised |-> TRUE,
          events |-> << JudgeEvent(k, Excerpt(ps[k].content), resp) >>]
    ELSE [papers |-> [ps EXCEPT ![k].scores = resp.object], raised |-> FALSE,
          events |-> << JudgeEvent(k, Excerpt(ps[k].content), resp),
                        StoreEvent(k), SleepEvent(k) >>]

\* One iteration of the for loop of analyze_papers on paper k, the Judge
\* answering resp: self.papers afterwards, whether an exception left the
\* iteration, and what the iteration did, in order.
Iteration(ps, k, resp) ==
    IF Fails(resp)
    THEN [papers |-> [ps EXCEPT ![k].scores = ErrorJudgment(ErrorText(resp))],
          raised |-> FALSE,
          events |-> << JudgeEvent(k, Excerpt(ps[k].content), resp), StoreEvent(k) >>]
    ELSE [papers |-> [ps EXCEPT ![k].scores = resp.object],
          raised |-> FALSE,
          events |-> << JudgeEvent(k, Excerpt(ps[k].content), resp),
                        StoreEvent(k), SleepEvent(k) >>]

\* ------------------------------------------------------------- ranking

\* Faulty variant: a paper recommended otherwise than "Include" is filtered
\* out as well.
Included_ByRecommendation(p) ==
    /\ Get(p.scores, "meets_inclusion_criteria", FALSE)
    /\ Get(p.scores, "recommendation", "Include") = "Include"

\* p['scores'].get('meets_inclusion_criteria', False)
Included(p) == Get(p.scores, "meets_inclusion_criteria", FALSE)

\* key=lambda x: x['scores'].get('overall_score', 0)
SortKey(p) == Get(p.scores, "overall_score", 0)

\* Faulty variant: equal keys end up in reverse order (an ascending sort,
\* then reversed).
InsertDesc_TiesReversed(acc, x) ==
    LET before == { j \in 1..Len(acc) : SortKey(acc[j]) > SortKey(x) }
        n == Cardinality(before)
    IN  SubSeq(acc, 1, n) \o <<x>> \o SubSeq(acc, n + 1, Len(acc))

\* Where sorted(..., reverse=True) puts x into the already sorted acc: after
\* every element whose key is not smaller (the sort is stable).
InsertDesc(acc, x) ==
    LET before == { j \in 1..Len(acc) : SortKey(acc[j]) >= SortKey(x) }
        n == Cardinality(before)
    IN  SubSeq(acc, 1, n) \o <<x>> \o SubSeq(acc, n + 1, Len(acc))

\* sorted(seq, key=..., reverse=True)
RECURSIVE SortedDescFrom(_, _)
SortedDescFrom(acc, rest) ==
    IF rest = <<>> THEN acc
    ELSE SortedDescFrom(InsertDesc(acc, Head(rest)), Tail(rest))

SortedDesc(seq) == SortedDescFrom(<<>>, seq)

\* [p for p in self.papers if p['scores'].get('meets_inclusion_criteria', False)]
included_papers(ps) == SelectSeq(ps, Included)

\* rank_papers
rank_papers(ps) == SortedDesc(included_papers(ps))

\* seq[:n]
Take(seq, n) == SubSeq(seq, 1, Min(Len(seq), n))

\* ------------------------------------------------------- report stages

\* Faulty variant: the report sorts self.papers itself.
generate_report_SortsPapers(ps) ==
    [papers |-> SortedDesc(ps), written |-> {"healthcare_ai_paper_analysis.csv"}]

\* generate_report: one row per paper, sorted in the data frame (not in
\* self.papers) and written as CSV.
generate_report(ps) ==
    [papers |-> ps, written |-> {"healthcare_ai_paper_analysis.csv"}]

\* top_n=10
TopN == 10

\* visualize_results: nothing when no paper is included; else the ranking
\* chart of rank_papers()[:top_n], and the radar chart when it has 3 papers.
visualize_results(ps, prev) ==
    IF included_papers(ps) = <<>>
    THEN [papers |-> ps, ranked |-> prev, written |-> {}]
    ELSE LET ranked_papers == Take(rank_papers(ps), TopN)
         IN  [papers |-> ps, ranked |-> rank_papers(ps),
              written |-> {"healthcare_ai_papers_ranking.png"}
                          \cup (IF Len(ranked_papers) >= 3
                                THEN {"research_question_coverage.png"} ELSE {})]

\* Faulty variant: a paper whose judgment names no domain is left out of the
\* counts.
DomainStep_SkipsMissing(domains, paper) ==
    IF "healthcare_domain" \in DOMAIN paper.scores
    THEN LET domain == paper.scores.healthcare_domain
         IN  [d \in DOMAIN domains \cup {domain} |->
                 IF d = domain THEN Get(domains, domain, 0) + 1 ELSE domains[d]]
    ELSE domains

\* domain = paper['scores'].get('healthcare_domain', 'Unspecified')
\* domains[domain] = domains.get(domain, 0) + 1
DomainStep(domains, paper) ==
    LET domain == Get(paper.scores, "healthcare_domain", "Unspecified")
    IN  [d \in DOMAIN domains \cup {domain} |->
            IF d = domain THEN Get(domains, domain, 0) + 1 ELSE domains[d]]

\* domains = {}; for paper in ranked_papers: ...
RECURSIVE DomainCountsFrom(_, _)
DomainCountsFrom(domains, rest) ==
    IF rest = <<>> THEN domains
    ELSE DomainCountsFrom(DomainStep(domains, Head(rest)), Tail(rest))

domain_counts(ranked_papers) == DomainCountsFrom(EmptyDict, ranked_papers)

\* generate_detailed_review: nothing when rank_papers() is empty; else the
\* markdown review, with the count of ranked papers per healthcare domain.
generate_detailed_review(ps) ==
    LET ranked_papers == rank_papers(ps)
    IN  [papers |-> ps, ranked |-> ranked_papers,
         written |-> IF ranked_papers = <<>> THEN {}
                     ELSE {"healthcare_ai_detailed_review.md"},
         domains |-> IF ranked_papers = <<>> THEN EmptyDict
                     ELSE domain_counts(ranked_papers)]

\* ------------------------------------------------------------- actions

NoCall == [called |-> FALSE, doc |-> Doc(FALSE, <<>>), max_pages |-> None,
           read |-> <<>>, text |-> <<>>]

\* HealthcareAIPaperAnalyzer.__init__ and the entry of the caller.
InitCommon ==
    /\ pc = "start"
    /\ papers = <<>>
    /\ i = 0
    /\ events = <<>>
    /\ ret = "none"
    /\ ranked = <<>>
    /\ files = {}
    /\ ex = NoCall
    /\ review = EmptyDict

\* main(), or analyze_papers() called on a fresh analyzer.  env tells whether
\* the papers directory exists and whether OPENAI_API_KEY is set.
Init ==
    /\ InitCommon
    /\ driver \in {"main", "analyze"}
    /\ fs \in [tree : MainTrees, dir_exists : BOOLEAN, api_key : BOOLEAN]

\* main: the checks before loading.
MainStart ==
    /\ pc = "start" /\ driver = "main"
    /\ pc' = IF ~fs.dir_exists THEN "exit_no_directory"
             ELSE IF ~fs.api_key THEN "exit_no_api_key"
             ELSE "load"
    /\ UNCHANGED <<fs, driver, papers, i, events, ret, ranked, files, ex, review>>

\* main: if not analyzer.load_papers(papers_dir): ... return
AfterLoad(result) == IF result THEN "analyze" ELSE "exit_empty_corpus"

\* main: analyzer.load_papers(papers_dir)
MainLoad ==
    /\ pc = "load"
    /\ LET r == load_papers(fs.tree)
       IN  /\ papers' = r.papers
           /\ ret' = IF r.raised THEN "raised" ELSE IF r.result THEN "true" ELSE "false"
           /\ pc' = IF r.raised THEN "crashed" ELSE AfterLoad(r.result)
    /\ UNCHANGED <<fs, driver, i, events, ranked, files, ex, review>>

\* analyze_papers() called directly on the fresh analyzer.
DirectAnalyze ==
    /\ pc = "start" /\ driver = "analyze"
    /\ pc' = "analyze"
    /\ UNCHANGED <<fs, driver, papers, i, events, ret, ranked, files, ex, review>>

\* Faulty variant: no check for an empty self.papers.
NothingLoaded_Unchecked(ps) == FALSE

\* if not self.papers:
NothingLoaded(ps) == ps = <<>>

\* analyze_papers: the check before the loop; main returns when it gets False.
AnalyzeEnter ==
    /\ pc = "analyze"
    /\ IF NothingLoaded(papers)
       THEN /\ ret' = "false"
            /\ pc' = IF driver = "main" THEN "exit_not_analyzed" ELSE "returned"
            /\ i' = i
       ELSE /\ ret' = "none"
            /\ pc' = "loop"
            /\ i' = 1
    /\ UNCHANGED <<fs, driver, papers, events, ranked, files, ex, review>>

\* analyze_papers: one iteration of the loop, the Judge answering resp.
AnalyzeStep ==
    /\ pc = "loop" /\ i <= Len(papers)
    /\ \E resp \in JudgeResponses :
         LET r == Iteration(papers, i, resp)
         IN  /\ papers' = r.papers
             /\ events' = events \o r.events
             /\ IF r.raised
                THEN /\ pc' = "crashed" /\ ret' = "raised" /\ i' = i
                ELSE /\ pc' = pc /\ ret' = ret /\ i' = i + 1
    /\ UNCHANGED <<fs, driver, ranked, files, ex, review>>

\* analyze_papers: return True after the loop.
AnalyzeReturn ==
    /\ pc = "loop" /\ i > Len(papers)
    /\ ret' = "true"
    /\ pc' = IF driver = "main" THEN "report" ELSE "returned"
    /\ UNCHANGED <<fs, driver, papers, i, events, ranked, files, ex, review>>

\* main: analyzer.generate_report()
MainReport ==
    /\ pc = "report"
    /\ LET r == generate_report(papers)
       IN  /\ papers' = r.papers
           /\ files' = files \cup r.written
    /\ pc' = "visualize"
    /\ UNCHANGED <<fs, driver, i, events, ret, ranked, ex, review>>

\* main: analyzer.visualize_results()
MainVisualize ==
    /\ pc = "visualize"
    /\ LET r == visualize_results(papers, ranked)
       IN  /\ papers' = r.papers
           /\ ranked' = r.ranked
           /\ files' = files \cup r.written
    /\ pc' = "review"
    /\ UNCHANGED <<fs, driver, i, events, ret, ex, review>>

\* main: analyzer.generate_detailed_review()
MainReview ==
    /\ pc = "review"
    /\ LET r == generate_detailed_review(papers)
       IN  /\ papers' = r.papers
           /\ ranked' = r.ranked
           /\ files' = files \cup r.written
           /\ review' = r.domains
    /\ pc' = "top"
    /\ UNCHANGED <<fs, driver, i, events, ret, ex>>

\* main: top_papers = analyzer.rank_papers()[:5], printed.
MainTop ==
    /\ pc = "top"
    /\ ranked' = rank_papers(papers)
    /\ pc' = "done"
    /\ UNCHANGED <<fs, driver, papers, i, events, ret, files, ex, review>>

Next ==
    \/ MainStart
    \/ MainLoad
    \/ DirectAnalyze
    \/ AnalyzeEnter
    \/ AnalyzeStep
    \/ AnalyzeReturn
    \/ MainReport
    \/ MainVisualize
    \/ MainReview
    \/ MainTop

Spec == Init /\ [][Next]_vars

\* analyze_papers runs sequentially and every Judge call returns or raises:
\* once entered, its next step is taken.
FairSpec == Spec /\ WF_vars(AnalyzeEnter \/ AnalyzeStep \/ AnalyzeReturn)

\* ------------------------------------------- load_papers called directly

InitLoad ==
    /\ InitCommon
    /\ driver = "load"
    /\ fs \in [tree : Trees, dir_exists : {TRUE}, api_key : {TRUE}]

\* analyzer.load_papers(papers_dir)
LoadCall ==
    /\ pc = "start" /\ driver = "load"
    /\ LET r == load_papers(fs.tree)
       IN  /\ papers' = r.papers
           /\ ret' = IF r.raised THEN "raised" ELSE IF r.result THEN "true" ELSE "false"
           /\ pc' = IF r.raised THEN "crashed" ELSE "returned"
    /\ UNCHANGED <<fs, driver, i, events, ranked, files, ex, review>>

NextLoad == LoadCall

SpecLoad == InitLoad /\ [][NextLoad]_vars

\* --------------------------------- extract_text_from_pdf called directly

PageTexts == { <<>>, <<"x">>, <<"y">> }

\* Documents of at most MaxPages pages, and one PdfReader cannot open.
ExtractDocs ==
    { Doc(TRUE, ps) : ps \in UNION { [1..n -> PageTexts] : n \in 0..MaxPages } }
    \cup { Corrupt }

\* max_pages: not given, or 0 .. MaxPages + 1.
MaxPagesArgs == { None } \cup { IntArg(n) : n \in 0..(MaxPages + 1) }

InitExtract ==
    /\ InitCommon
    /\ driver = "extract"
    /\ fs = [tree |-> DirNode(papers_dir, TRUE, <<>>), dir_exists |-> TRUE, api_key |-> TRUE]

\* analyzer.extract_text_from_pdf(pdf_path, max_pages)
ExtractCall ==
    /\ pc = "start" /\ driver = "extract"
    /\ \E doc \in ExtractDocs, mp \in MaxPagesArgs :
         LET r == extract_text_from_pdf(doc, mp)
         IN  ex' = [called |-> TRUE, doc |-> doc, max_pages |-> mp,
                    read |-> r.read, text |-> r.text]
    /\ pc' = "returned"
    /\ UNCHANGED <<fs, driver, papers, i, events, ret, ranked, files, review>>

NextExtract == ExtractCall

SpecExtract == InitExtract /\ [][NextExtract]_vars

\* ------------------------------------------------------------- claims

\* analyze_papers has returned True (only main gets there with papers).
AnalyzeReturnedTrue ==
    \/ pc \in {"report", "visualize", "review", "top", "done"}
    \/ (pc = "returned" /\ driver = "analyze" /\ ret = "true")

\* The records load_papers produced from the tree.
Loaded == load_papers(fs.tree).papers

SameRecord(p, q) ==
    /\ p.filename = q.filename
    /\ p.filepath = q.filepath
    /\ p.content = q.content

\* The Judge calls made so far, as positions in the log.
JudgeCalls == { n \in DOMAIN events : events[n].op = "judge" }

\* C1: when analyze_papers returns, the records are those loaded, as many and
\* in the same order, and every record carries a judgment (its scores are not
\* the empty placeholder load_papers created).
C1_AllJudgedOnReturn ==
    AnalyzeReturnedTrue =>
        /\ Len(papers) = Len(Loaded)
        /\ \A k \in 1..Len(papers) :
             /\ SameRecord(papers[k], Loaded[k])
             /\ papers[k].scores # EmptyDict

\* C2: a record whose Judge call or response parsing failed holds the error
\* judgment (not included, score 0, recommendation "Error", an error
\* description); every other record holds exactly what the Judge returned
\* for it, whatever happened to the others.
C2_FailureIsolated ==
    \A n \in JudgeCalls :
        LET e == events[n]
            sc == papers[e.idx].scores
        IN  IF Fails(e.resp)
            THEN /\ DOMAIN sc = {"error", "meets_inclusion_criteria",
                                 "overall_score", "recommendation"}
                 /\ sc.meets_inclusion_criteria = FALSE
                 /\ sc.overall_score = 0
                 /\ sc.recommendation = "Error"
                 /\ sc.error \in {"APIError", "JSONDecodeError"}
            ELSE sc = e.resp.object

\* A run of two or more papers has returned, one paper failed and another
\* got a judgment from the Judge.
C2_Witness ==
    /\ AnalyzeReturnedTrue
    /\ \E m, n \in JudgeCalls :
         /\ Fails(events[m].resp)
         /\ ~Fails(events[n].resp)
         /\ events[n].resp.object # EmptyDict
         /\ events[m].idx < events[n].idx

\* Position of a ranked record in self.papers (file paths are unique).
LoadPos(p) == CHOOSE k \in 1..Len(papers) : papers[k].filepath = p.filepath

MeetsInclusion(p) ==
    /\ "meets_inclusion_criteria" \in DOMAIN p.scores
    /\ p.scores.meets_inclusion_criteria = TRUE

\* overall_score, 0 when the judgment has none.
OverallScore(p) ==
    IF "overall_score" \in DOMAIN p.scores THEN p.scores.overall_score ELSE 0

\* C3: rank_papers returns exactly the records whose judgment has
\* meets_inclusion_criteria = true, each once, by overall_score descending
\* (0 for a judgment without one), equal scores in load order.
C3_RankedIncludedStable ==
    pc \in {"top", "done"} =>
        /\ \A a \in 1..Len(ranked) :
             \E k \in 1..Len(papers) : papers[k] = ranked[a] /\ MeetsInclusion(papers[k])
        /\ \A k \in 1..Len(papers) :
             MeetsInclusion(papers[k]) =>
                Cardinality({ a \in 1..Len(ranked) : ranked[a] = papers[k] }) = 1
        /\ \A a, b \in 1..Len(ranked) :
             a < b =>
                /\ OverallScore(ranked[a]) >= OverallScore(ranked[b])
                /\ OverallScore(ranked[a]) = OverallScore(ranked[b])
                       => LoadPos(ranked[a]) < LoadPos(ranked[b])

\* Load order A=40, B=90, C=90 has been ranked as [B, C, A].
C3_Witness ==
    /\ pc = "done"
    /\ Len(papers) = 3 /\ Len(ranked) = 3
    /\ OverallScore(papers[1]) = 40
    /\ OverallScore(papers[2]) = 90
    /\ OverallScore(papers[3]) = 90
    /\ ranked = << papers[2], papers[3], papers[1] >>

\* C4: every Judge call is followed by the pacing delay before the next
\* Judge call and before analyze_papers returns.
C4_DelayAfterEveryCall ==
    \A n \in JudgeCalls :
        \E m \in DOMAIN events :
            /\ m > n
            /\ events[m].op = "sleep"
            /\ events[m].idx = events[n].idx
            /\ \A l \in JudgeCalls : ~(n < l /\ l < m)

\* C5: analyze_papers, entered with papers, returns True.
C5_AnalyzeTerminates ==
    (pc = "analyze" /\ papers # <<>>) ~> (ret = "true" /\ AnalyzeReturnedTrue)

\* analyze_papers has returned True although the first of several papers
\* failed.
C5_Witness ==
    /\ AnalyzeReturnedTrue
    /\ Len(papers) >= 2
    /\ \E n \in JudgeCalls : events[n].idx = 1 /\ Fails(events[n].resp)
    /\ \E n \in JudgeCalls : events[n].idx = Len(papers)

\* The files load_papers can reach: those not beneath a directory that cannot
\* be listed, each with its path.
RECURSIVE FilesUnder(_, _)
FilesUnder(dir, path) ==
    IF ~dir.listable THEN {}
    ELSE UNION { IF dir.entries[k].kind = "file"
                 THEN { [path |-> Append(path, dir.entries[k].name),
                         node |-> dir.entries[k]] }
                 ELSE FilesUnder(dir.entries[k], Append(path, dir.entries[k].name)) :
                 k \in 1..Len(dir.entries) }

\* The directories of the tree that cannot be listed, as paths.
RECURSIVE UnlistableUnder(_, _)
UnlistableUnder(dir, path) ==
    IF ~dir.listable THEN { path }
    ELSE UNION { IF dir.entries[k].kind = "file" THEN {}
                 ELSE UnlistableUnder(dir.entries[k], Append(path, dir.entries[k].name)) :
                 k \in 1..Len(dir.entries) }

\* The name ends in .pdf, in any mix of cases.
HasPdfExtension(name) ==
    /\ Len(name) >= 4
    /\ name[Len(name) - 3] = "."
    /\ name[Len(name) - 2] \in {"p", "P"}
    /\ name[Len(name) - 1] \in {"d", "D"}
    /\ name[Len(name)] \in {"f", "F"}

\* The text the Extractor gives for a document under the page cap of the loader.
LoaderText(doc) == extract_text_from_pdf(doc, IntArg(LoadMaxPages)).text

\* The files a record is due for.
Qualifying ==
    { f \in FilesUnder(fs.tree, <<papers_dir>>) :
        HasPdfExtension(f.node.name) /\ LoaderText(f.node.doc) # <<>> }

\* C6: load_papers returns without raising and holds exactly one record per
\* file it reaches whose name ends in .pdf (any case) and whose extraction
\* gives non-empty text, each with that text as content, and no other record.
C6_OneRecordPerQualifyingFile ==
    pc # "crashed" /\
    (pc = "returned" =>
        /\ Len(papers) = Cardinality(Qualifying)
        /\ \A f \in Qualifying :
             \E k \in 1..Len(papers) :
                /\ papers[k].filepath = f.path
                /\ papers[k].filename = f.node.name
                /\ papers[k].content = LoaderText(f.node.doc)
        /\ \A k \in 1..Len(papers) :
             /\ papers[k].content # <<>>
             /\ \E f \in Qualifying : f.path = papers[k].filepath)

\* Beside a corrupt .pdf and a .txt, an upper-case .PDF of more pages than
\* the cap has been recorded, alone.
C6_Witness ==
    /\ pc = "returned"
    /\ Len(papers) = 1
    /\ papers[1].filename = Str_B_PDF
    /\ Len(papers[1].content) = 2 * LoadMaxPages
    /\ \E k \in 1..Len(fs.tree.entries) :
         /\ fs.tree.entries[k].name = Str_a_pdf
         /\ fs.tree.entries[k].doc = Corrupt
    /\ \E k \in 1..Len(fs.tree.entries) : fs.tree.entries[k].name = Str_n_txt

IsPrefix(s, t) == Len(s) <= Len(t) /\ SubSeq(t, 1, Len(s)) = s

\* C7: a directory that cannot be listed is skipped without raising, and
\* every qualifying PDF outside it is still recorded, once.
C7_UnlistableSkipped ==
    pc # "crashed" /\
    (pc = "returned" =>
        \A d \in UnlistableUnder(fs.tree, <<papers_dir>>) :
            \A f \in Qualifying :
                ~IsPrefix(d, f.path) =>
                    Cardinality({ k \in 1..Len(papers) : papers[k].filepath = f.path }) = 1)

\* A directory that cannot be listed stood between two readable PDFs and
\* before a listable directory; the PDFs on both sides and the one in the
\* listable directory have been recorded.
C7_Witness ==
    /\ pc = "returned"
    /\ Len(fs.tree.entries) = 3
    /\ fs.tree.entries[1].kind = "file"
    /\ fs.tree.entries[2].kind = "dir" /\ ~fs.tree.entries[2].listable
    /\ fs.tree.entries[3].kind = "dir" /\ fs.tree.entries[3].listable
    /\ Len(papers) >= 2
    /\ papers[1].filepath = << papers_dir, fs.tree.entries[1].name >>
    /\ \E k \in 2..Len(papers) :
         IsPrefix(<< papers_dir, fs.tree.entries[3].name >>, papers[k].filepath)

\* C8: for a non-negative max_pages, extract_text_from_pdf reads the first
\* min(P, max_pages) pages in order, and all P pages when max_pages is not
\* given.
C8_ReadsMinPages ==
    (ex.called /\ ex.doc.ok) =>
        IF ex.max_pages.given
        THEN ex.read = [k \in 1..Min(Len(ex.doc.pages), ex.max_pages.val) |-> k]
        ELSE ex.read = [k \in 1..Len(ex.doc.pages) |-> k]

\* C9: when the tree yields no record, main ends in the empty-corpus outcome:
\* load_papers reported nothing loaded, the Judge was never called, nothing
\* was ranked or written, and no stage runs afterwards; analyze_papers on an
\* analyzer without records returns False without calling the Judge.
C9_EmptyCorpus ==
    /\ (/\ driver = "main"
        /\ pc \notin {"start", "load", "exit_no_directory", "exit_no_api_key"}
        /\ Qualifying = {})
       => /\ pc = "exit_empty_corpus"
          /\ papers = <<>> /\ ret = "false"
          /\ events = <<>> /\ ranked = <<>> /\ files = {}
          /\ ~ENABLED Next
    /\ (driver = "analyze" /\ pc \notin {"start", "analyze"})
       => /\ pc = "returned"
          /\ papers = <<>> /\ ret = "false"
          /\ events = <<>>

\* main has ended in the empty-corpus outcome on a directory that holds a
\* file.
C9_Witness ==
    /\ pc = "exit_empty_corpus"
    /\ fs.tree.entries # <<>>

\* How often the judgment of record k has been stored.
Stores(k) == Cardinality({ n \in DOMAIN events : events[n].op = "store" /\ events[n].idx = k })

\* C10: in a run of main each judgment is stored exactly once, by the loop
\* of analyze_papers and for the record at hand; once analyze_papers has
\* returned, no stage changes self.papers (judgment, content, names, length,
\* order).
C10_JudgmentWrittenOnce ==
    /\ [](\A k \in 1..Len(papers) :
            /\ Stores(k) <= 1
            /\ AnalyzeReturnedTrue => Stores(k) = 1)
    /\ [][AnalyzeReturnedTrue => papers' = papers]_vars
    /\ [][papers' # papers =>
            \/ pc = "load"
            \/ /\ pc = "loop"
               /\ Len(papers') = Len(papers)
               /\ \A k \in 1..Len(papers) :
                    /\ SameRecord(papers'[k], papers[k])
                    /\ k # i => papers'[k] = papers[k]]_vars

\* main has finished on several judged papers whose ranking differs from the
\* load order, with reports written.
C10_Witness ==
    /\ pc = "done"
    /\ Len(papers) >= 2
    /\ Len(ranked) >= 2
    /\ ranked[1] # papers[1]
    /\ "healthcare_ai_paper_analysis.csv" \in files
    /\ "healthcare_ai_detailed_review.md" \in files

\* ------------------- rank_papers and the review on judged records, directly

\* Most judged records the analyzer holds when ranked directly.
MaxJudged == 3

\* Judgments analyze_papers can leave in a record: objects of the Judge, with
\* or without a domain, a recommendation at odds with the inclusion flag, and
\* the error judgment.
JudgedScores ==
    { EmptyDict,
      ErrorJudgment("APIError"),
      [meets_inclusion_criteria |-> TRUE, overall_score |-> 90,
       recommendation |-> "Include", healthcare_domain |-> "Cardiology"],
      [meets_inclusion_criteria |-> TRUE, overall_score |-> 90,
       recommendation |-> "Exclude", healthcare_domain |-> "Radiology"],
      [meets_inclusion_criteria |-> TRUE, overall_score |-> 40,
       recommendation |-> "Include"],
      [meets_inclusion_criteria |-> TRUE, overall_score |-> 40,
       recommendation |-> "Error", healthcare_domain |-> "Cardiology"],
      [meets_inclusion_criteria |-> TRUE,
       recommendation |-> "Include", healthcare_domain |-> "Unspecified"],
      [meets_inclusion_criteria |-> FALSE, overall_score |-> 90,
       recommendation |-> "Include", healthcare_domain |-> "Cardiology"] }

\* self.papers after load_papers and analyze_papers: n records in load
\* order, each with one of the judgments.
JudgedPapers ==
    UNION { { [k \in 1..n |->
                 [Paper(MainNames[k], << papers_dir, MainNames[k] >>, <<"\n">>)
                     EXCEPT !.scores = sc[k]]] :
              sc \in [1..n -> JudgedScores] } :
            n \in 0..MaxJudged }

InitJudged ==
    /\ InitCommon
    /\ driver = "judged"
    /\ fs = [tree |-> DirNode(papers_dir, TRUE, <<>>), dir_exists |-> TRUE, api_key |-> TRUE]

\* The analyzer comes to hold judged records (load_papers, analyze_papers).
Judged ==
    /\ pc = "start" /\ driver = "judged"
    /\ papers' \in JudgedPapers
    /\ ret' = IF papers' = <<>> THEN "false" ELSE "true"
    /\ pc' = "judged"
    /\ UNCHANGED <<fs, driver, i, events, ranked, files, ex, review>>

\* analyzer.rank_papers()
RankCall ==
    /\ pc = "judged"
    /\ ranked' = rank_papers(papers)
    /\ pc' = "ranked"
    /\ UNCHANGED <<fs, driver, papers, i, events, ret, files, ex, review>>

\* analyzer.generate_detailed_review()
ReviewCall ==
    /\ pc = "judged"
    /\ LET r == generate_detailed_review(papers)
       IN  /\ papers' = r.papers
           /\ ranked' = r.ranked
           /\ files' = files \cup r.written
           /\ review' = r.domains
    /\ pc' = "reviewed"
    /\ UNCHANGED <<fs, driver, i, events, ret, ex>>

NextJudged == Judged \/ RankCall \/ ReviewCall

SpecJudged == InitJudged /\ [][NextJudged]_vars

\* The sum of the counts of a dict of counts.
RECURSIVE SumCounts(_)
SumCounts(d) ==
    IF DOMAIN d = {} THEN 0
    ELSE LET k == CHOOSE x \in DOMAIN d : TRUE
         IN  d[k] + SumCounts([x \in DOMAIN d \ {k} |-> d[x]])

\* The records of self.papers that meet the inclusion criteria, as indexes.
IncludedIdx == { k \in 1..Len(papers) : MeetsInclusion(papers[k]) }

\* The domain an included paper counts under.
DomainOf(p) ==
    IF "healthcare_domain" \in DOMAIN p.scores
    THEN p.scores.healthcare_domain ELSE "Unspecified"

\* C11: the domain counts of the detailed review are taken over the included
\* papers only, each included paper counting once, under its domain or under
\* "Unspecified" when it has none; so the counts sum to the number of
\* included papers.
C11_DomainCountsSum ==
    (pc = "reviewed" /\ "healthcare_ai_detailed_review.md" \in files) =>
        /\ DOMAIN review = { DomainOf(papers[k]) : k \in IncludedIdx }
        /\ \A d \in DOMAIN review :
             review[d] = Cardinality({ k \in IncludedIdx : DomainOf(papers[k]) = d })
        /\ SumCounts(review) = Cardinality(IncludedIdx)

\* A review has counted three papers: two included, one of them without a
\* domain, and one not included although it names a domain.
C11_Witness ==
    /\ pc = "reviewed"
    /\ Len(papers) = 3
    /\ Cardinality(IncludedIdx) = 2
    /\ \E k \in IncludedIdx : "healthcare_domain" \notin DOMAIN papers[k].scores
    /\ \E k \in 1..3 : k \notin IncludedIdx /\ "healthcare_domain" \in DOMAIN papers[k].scores
    /\ "Unspecified" \in DOMAIN review
    /\ SumCounts(review) = 2

\* The recommendations a judgment can carry.
Recommendations == {"Include", "Exclude", "Error"}

\* The records ps with the recommendation of record k set to alt[k], all
\* else as it is.
WithRecommendations(ps, alt) ==
    [k \in 1..Len(ps) |->
        [ps[k] EXCEPT !.scores =
            [key \in DOMAIN ps[k].scores \cup {"recommendation"} |->
                IF key = "recommendation" THEN alt[k] ELSE ps[k].scores[key]]]]

\* The records of a sequence, by file path.
PathsOf(seq) == [k \in 1..Len(seq) |-> seq[k].filepath]

\* C12: the ranking depends on meets_inclusion_criteria, overall_score and
\* load order only: records that differ from self.papers in nothing but
\* their recommendations rank as the same sequence of records.
C12_RankIgnoresRecommendation ==
    pc = "ranked" =>
        \A alt \in [1..Len(papers) -> Recommendations] :
            PathsOf(rank_papers(WithRecommendations(papers, alt))) = PathsOf(ranked)

\* Two or more records have been ranked, among them included ones whose
\* recommendation is "Exclude" and "Error".
C12_Witness ==
    /\ pc = "ranked"
    /\ Len(ranked) >= 2
    /\ \E a \in 1..Len(ranked) : Get(ranked[a].scores, "recommendation", "") = "Exclude"
    /\ \E a \in 1..Len(ranked) : Get(ranked[a].scores, "recommendation", "") = "Error"
    /\ \E k \in 1..Len(papers) : ~MeetsInclusion(papers[k])

====
